---- MODULE Spec2Model ----
(***************************************************************************)
(* The indexed append-only record store of OpenWorld-MethaneMonitoring:    *)
(* IndexedJsonlStore (persistence/indexed_jsonl.py), the JSONL reader it   *)
(* falls back on (persistence/jsonl.py), the timestamp parser              *)
(* (core/timeutil.py) and the record type (models.py).                     *)
(*                                                                         *)
(* The Log file is a sequence of chunks of bytes.  A chunk is what one     *)
(* write put into the file: a text and, except for a partial write, the    *)
(* newline that ends it.  Byte offsets are sums of chunk lengths, so that  *)
(* fp.tell(), fp.seek() and fp.readline() are computed as the code         *)
(* computes them.                                                          *)
(***************************************************************************)
EXTENDS Integers, Sequences, FiniteSets, TLC

(* ------------------------------ bounds -------------------------------- *)

\* The Log never holds more than MaxLines chunks.
MaxLines == 2

\* The numbers of records one append call carries.
BatchSizes == {0, 1, 2}

\* The n a tail(n) call is given: up to one more than the Log can hold.
TailArgs == 0..(MaxLines + 1)

Times == {1, 2}
Sites == {"site-1", "site-2"}
Regions == {"region-1", "region-2"}

\* datetime | None: the absent bound of query_time_range.
None == 0

(* ------------------------------ records ------------------------------- *)

\* models.EmissionRecord after __post_init__: the timestamp is a UTC
\* instant; meta keeps its default.
EmissionRecord(ts, site, region, rate, src) ==
    [timestamp |-> ts, site_id |-> site, region_id |-> region,
     emission_rate_kg_per_h |-> rate, source |-> src]

\* The records callers append.  Every pair of the fields timestamp,
\* site_id and region_id takes all four combinations of values.
RecordSet ==
    { EmissionRecord(1, "site-1", "region-1", 5, "test"),
      EmissionRecord(2, "site-2", "region-1", 6, "test"),
      EmissionRecord(2, "site-1", "region-2", 7, "jsonl"),
      EmissionRecord(1, "site-2", "region-2", 5, "indexed_jsonl") }

\* The four fields a Log line carries.
Persisted(r) ==
    [timestamp |-> r.timestamp, site_id |-> r.site_id,
     region_id |-> r.region_id,
     emission_rate_kg_per_h |-> r.emission_rate_kg_per_h]

RECURSIVE MapPersisted(_)
MapPersisted(rs) ==
    IF rs = << >> THEN << >>
    ELSE << Persisted(Head(rs)) >> \o MapPersisted(Tail(rs))

(* --------------------------- the Log's bytes -------------------------- *)

\* A chunk of the Log.  kind: "json" is a JSON object with the keys
\* timestamp, site_id, region_id and emission_rate_kg_per_h; "nokey" a
\* JSON object without one of timestamp/site_id/region_id; "nonobj" a
\* JSON value that is no object; "nonjson" text json.loads rejects;
\* "blank" whitespace only; "partial" the start of a line whose newline
\* was never written.  fmt is the format of the timestamp string of a
\* "json" chunk.
Chunk(kind, fmt, ts, site, region, rate, nl) ==
    [kind |-> kind, fmt |-> fmt, inst |-> ts, site_id |-> site,
     region_id |-> region, rate |-> rate, nl |-> nl]

Malformed(kind, nl) == Chunk(kind, "none", 0, "", "", 0, nl)

\* record.timestamp.astimezone(timezone.utc).isoformat(), json.dumps and
\* the newline: the line append writes for a record.
JsonLine(r) ==
    Chunk("json", "iso", r.timestamp, r.site_id, r.region_id,
          r.emission_rate_kg_per_h, TRUE)

\* Bytes of a chunk's text, the newline not counted.
TextLen(c) ==
    CASE c.kind = "json"    -> 5
      [] c.kind = "nokey"   -> 4
      [] c.kind = "nonobj"  -> 2
      [] c.kind = "nonjson" -> 3
      [] c.kind = "partial" -> 2
      [] c.kind = "blank"   -> 0

ByteLen(c) == TextLen(c) + (IF c.nl THEN 1 ELSE 0)

\* Offset of the first byte of chunk i; Offset(lg, Len(lg) + 1) is the
\* size of the file.
RECURSIVE Offset(_, _)
Offset(lg, i) == IF i <= 1 THEN 0 ELSE Offset(lg, i - 1) + ByteLen(lg[i - 1])

FileSize(lg) == Offset(lg, Len(lg) + 1)

\* Chunk i is where a physical line starts.
LineStart(lg, i) == i = 1 \/ lg[i - 1].nl

\* The chunk that ends the physical line which chunk i is part of.
RECURSIVE LineEnd(_, _)
LineEnd(lg, i) ==
    IF i >= Len(lg) \/ lg[i].nl THEN i ELSE LineEnd(lg, i + 1)

\* What readline() returns, stripped, with the file position at the
\* start of chunk i: the chunk's text when the line is that chunk alone,
\* and text that is no JSON when the line runs over several chunks.
LineAt(lg, i) ==
    IF LineEnd(lg, i) = i /\ lg[i].kind # "partial" THEN lg[i]
    ELSE Malformed("nonjson", TRUE)

\* fp.seek(off); fp.readline().strip()
ReadLineAt(lg, off) ==
    IF off >= FileSize(lg) THEN Malformed("blank", FALSE)
    ELSE IF \E i \in 1..Len(lg) : Offset(lg, i) = off
         THEN LineAt(lg, CHOOSE i \in 1..Len(lg) : Offset(lg, i) = off)
         ELSE Malformed("nonjson", TRUE)

(* ------------------------- core/timeutil.py --------------------------- *)

\* parse_timestamp accepts the ISO forms with an offset ("iso"), with a Z
\* suffix ("z") and without a zone ("naive"); anything else raises
\* ValueError.  Every accepted form is normalised to the UTC instant.
AcceptedFormats == {"iso", "z", "naive"}

TimestampParses(c) == c.fmt \in AcceptedFormats

parse_timestamp(c) == c.inst

(* ------------------------------- index -------------------------------- *)

IndexEntry(off, len, ts, site, region) ==
    [offset |-> off, length |-> len, timestamp |-> ts, site_id |-> site,
     region_id |-> region]

VARIABLES
    log,        \* the Log file: a sequence of chunks
    sidecar,    \* the index file: [st, entries]
    index,      \* index[h]: self._index of handle h
    loaded,     \* loaded[h]: self._index_loaded of handle h
    appended,   \* the records appended through the Store, in order
    origin,     \* who wrote the sidecar, and from an index of which Log
    sync,       \* sync[h]: nothing but handle h wrote the Log since h loaded
    held,       \* held[h]: the index h held when the sidecar was deleted
    last,       \* the call made last, and what it returned
    present,    \* the Log file exists
    threads     \* threads[t]: the call thread t is in, and where in it

vars ==
    << log, sidecar, index, loaded, appended, origin, sync, held, last,
       present, threads >>

Handles == DOMAIN index

Absent == [st |-> "absent", entries |-> << >>]
Garbage == [st |-> "garbage", entries |-> << >>]
Pickled(ix) == [st |-> "list", entries |-> ix]

(* --------------------- _rebuild_index, _save_index -------------------- *)

\* What the body of the scan loop does with one stripped line:
\* "skip" for a blank line and for json.JSONDecodeError or KeyError,
\* "entry" for an indexed line, "abort" for an exception the inner
\* handler does not catch (ValueError of parse_timestamp, TypeError of
\* subscripting a JSON value that is no object).
ScanLine(c) ==
    CASE c.kind = "blank"   -> "skip"
      [] c.kind = "nonjson" -> "skip"
      [] c.kind = "partial" -> "skip"
      [] c.kind = "nokey"   -> "skip"
      [] c.kind = "nonobj"  -> "abort"
      [] c.kind = "json"    -> IF TimestampParses(c) THEN "entry" ELSE "abort"

\* The entry the scan makes for the line at chunk i: length is that of the
\* stripped line.
ScanEntry(lg, i) ==
    IndexEntry(Offset(lg, i), TextLen(lg[i]), parse_timestamp(lg[i]),
               lg[i].site_id, lg[i].region_id)

\* The scan from chunk i on, with acc the entries made so far.
RECURSIVE Scan(_, _, _)
Scan(lg, i, acc) ==
    IF i > Len(lg) THEN [ok |-> TRUE, entries |-> acc]
    ELSE LET j == LineEnd(lg, i)
             what == ScanLine(LineAt(lg, i))
         IN  CASE what = "abort" -> [ok |-> FALSE, entries |-> << >>]
               [] what = "skip"  -> Scan(lg, j + 1, acc)
               [] what = "entry" ->
                    Scan(lg, j + 1, Append(acc, ScanEntry(lg, i)))

\* _save_index: the sidecar holds the pickled index.
SaveIndex(ix) == Pickled(ix)

\* _rebuild_index: the handle's index and the sidecar afterwards.  A
\* missing or empty Log returns before the scan; a scan that raises leaves
\* the index empty and the sidecar as it was.
RebuildIndex(lg, sc) ==
    IF ~present \/ FileSize(lg) = 0
    THEN [index |-> << >>, sidecar |-> sc, saved |-> FALSE]
    ELSE LET s == Scan(lg, 1, << >>)
         IN  IF s.ok
             THEN [index |-> s.entries, sidecar |-> SaveIndex(s.entries),
                   saved |-> TRUE]
             ELSE [index |-> << >>, sidecar |-> sc, saved |-> FALSE]

(* ----------------------------- _load_index ---------------------------- *)

\* A faulty _load_index without the _index_loaded test: every call reads
\* the sidecar or rebuilds.
LoadIndexEveryCall(ix, ld, lg, sc) ==
    CASE sc.st = "list" ->
           [index |-> sc.entries, sidecar |-> sc, path |-> "adopted",
            saved |-> FALSE]
      [] sc.st = "absent" ->
           RebuildIndex(lg, sc) @@ [path |-> "rebuilt-absent"]
      [] sc.st = "garbage" ->
           RebuildIndex(lg, sc) @@ [path |-> "rebuilt-corrupt"]

\* A faulty _load_index that reads the sidecar again on a loaded handle.
LoadIndexRereadsSidecar(ix, ld, lg, sc) ==
    CASE sc.st = "list" ->
           [index |-> sc.entries, sidecar |-> sc,
            path |-> IF ld THEN "cached" ELSE "adopted", saved |-> FALSE]
      [] ld /\ sc.st # "list" ->
           [index |-> ix, sidecar |-> sc, path |-> "cached", saved |-> FALSE]
      [] ~ld /\ sc.st = "absent" ->
           RebuildIndex(lg, sc) @@ [path |-> "rebuilt-absent"]
      [] ~ld /\ sc.st = "garbage" ->
           RebuildIndex(lg, sc) @@ [path |-> "rebuilt-corrupt"]

\* _load_index of a handle whose index is ix: the index and the sidecar
\* afterwards, and the path taken.
LoadIndex(ix, ld, lg, sc) ==
    IF ld THEN [index |-> ix, sidecar |-> sc, path |-> "cached",
                saved |-> FALSE]
    ELSE CASE sc.st = "list" ->
                [index |-> sc.entries, sidecar |-> sc, path |-> "adopted",
                 saved |-> FALSE]
           [] sc.st = "absent" ->
                RebuildIndex(lg, sc) @@ [path |-> "rebuilt-absent"]
           [] sc.st = "garbage" ->
                RebuildIndex(lg, sc) @@ [path |-> "rebuilt-corrupt"]

(* ------------------------------- Init --------------------------------- *)

NoCall == [op |-> "none"]

NotHeld == [ok |-> FALSE, index |-> << >>]

\* A thread that is in no call.
Idle == [pc |-> "idle"]

\* Whether handle h's index follows the Log after its _load_index took
\* path p: a rebuild read the Log as it is, an adopted sidecar is as good
\* as its writer's index was.
SyncAfterLoad(h, p) ==
    CASE p = "cached" -> sync[h]
      [] p = "adopted" -> origin = "sync"
      [] OTHER -> TRUE

\* Who wrote the sidecar after a _load_index.
OriginAfterLoad(ld) == IF ld.saved THEN "sync" ELSE origin

Init ==
    /\ log = << >>
    /\ sidecar = Absent
    /\ index = [h \in {1} |-> << >>]
    /\ loaded = [h \in {1} |-> FALSE]
    /\ appended = << >>
    /\ origin = "none"
    /\ sync = [h \in {1} |-> FALSE]
    /\ held = [h \in {1} |-> NotHeld]
    /\ last = NoCall
    /\ present = TRUE
    /\ threads = [t \in {1, 2} |-> Idle]

\* Two handles on one path, neither loaded yet.
InitTwo ==
    /\ log = << >>
    /\ sidecar = Absent
    /\ index = [h \in {1, 2} |-> << >>]
    /\ loaded = [h \in {1, 2} |-> FALSE]
    /\ appended = << >>
    /\ origin = "none"
    /\ sync = [h \in {1, 2} |-> FALSE]
    /\ held = [h \in {1, 2} |-> NotHeld]
    /\ last = NoCall
    /\ present = TRUE
    /\ threads = [t \in {1, 2} |-> Idle]

(* ---------------------- _read_records_by_offsets ---------------------- *)

\* sorted(offsets)
RECURSIVE Insert(_, _)
Insert(x, s) ==
    IF s = << >> THEN << x >>
    ELSE IF x <= Head(s) THEN << x >> \o s
         ELSE << Head(s) >> \o Insert(x, Tail(s))

RECURSIVE Sorted(_)
Sorted(s) == IF s = << >> THEN << >> ELSE Insert(Head(s), Sorted(Tail(s)))

\* What decoding one stripped line does in _read_records_by_offsets:
\* "skip" for an empty line and for JSONDecodeError, KeyError or
\* ValueError, "record" for a decoded line, "abort" for any other
\* exception, which ends the loop in the outer handler.
DecodeLine(c) ==
    CASE c.kind = "blank"   -> "skip"
      [] c.kind = "nonjson" -> "skip"
      [] c.kind = "partial" -> "skip"
      [] c.kind = "nokey"   -> "skip"
      [] c.kind = "nonobj"  -> "abort"
      [] c.kind = "json"    -> IF TimestampParses(c) THEN "record" ELSE "skip"

\* The record a line decodes to, with the source tag the reader gives it.
Decoded(c, src) ==
    EmissionRecord(parse_timestamp(c), c.site_id, c.region_id, c.rate, src)

RECURSIVE ReadSorted(_, _, _)
ReadSorted(lg, offs, acc) ==
    IF offs = << >> THEN acc
    ELSE LET c == ReadLineAt(lg, Head(offs))
             what == DecodeLine(c)
         IN  CASE what = "abort" -> acc
               [] what = "skip"  -> ReadSorted(lg, Tail(offs), acc)
               [] what = "record" ->
                    ReadSorted(lg, Tail(offs),
                               Append(acc, Decoded(c, "indexed_jsonl")))

ReadRecordsByOffsets(lg, offs) == ReadSorted(lg, Sorted(offs), << >>)

(* ------------------------ jsonl.read_records -------------------------- *)

\* A faulty read_records that stops one line before the end of the file.
RECURSIVE ReadRecordsStopsEarly(_, _, _)
ReadRecordsStopsEarly(lg, i, acc) ==
    IF i >= Len(lg) THEN [raised |-> FALSE, records |-> acc]
    ELSE LET j == LineEnd(lg, i)
             c == LineAt(lg, i)
         IN  IF c.kind = "blank" THEN ReadRecordsStopsEarly(lg, j + 1, acc)
             ELSE IF c.kind = "json" /\ TimestampParses(c)
                  THEN ReadRecordsStopsEarly(
                           lg, j + 1, Append(acc, Decoded(c, "jsonl")))
                  ELSE [raised |-> TRUE, records |-> << >>]

\* read_records has no handler: a line that is not blank and does not
\* decode raises out of the scan.
RECURSIVE ReadRecords(_, _, _)
ReadRecords(lg, i, acc) ==
    IF i > Len(lg) THEN [raised |-> FALSE, records |-> acc]
    ELSE LET j == LineEnd(lg, i)
             c == LineAt(lg, i)
         IN  IF c.kind = "blank" THEN ReadRecords(lg, j + 1, acc)
             ELSE IF c.kind = "json" /\ TimestampParses(c)
                  THEN ReadRecords(lg, j + 1, Append(acc, Decoded(c, "jsonl")))
                  ELSE [raised |-> TRUE, records |-> << >>]

(* --------------------------- query filters ---------------------------- *)

RECURSIVE Offsets(_)
Offsets(ix) ==
    IF ix = << >> THEN << >> ELSE << Head(ix).offset >> \o Offsets(Tail(ix))

\* A faulty tail slice: self._index[:n], the first n entries.
TailEntriesFirstN(ix, n) ==
    IF Len(ix) >= n THEN SubSeq(ix, 1, n) ELSE ix

\* self._index[-n:] if len(self._index) >= n else self._index
TailEntries(ix, n) ==
    IF Len(ix) >= n
    THEN IF n = 0 THEN ix ELSE SubSeq(ix, Len(ix) - n + 1, Len(ix))
    ELSE ix

\* A faulty range test: entry.timestamp > end, a closed interval.
InTimeRangeClosed(e, start, end) ==
    /\ ~(start # None /\ e.timestamp < start)
    /\ ~(end # None /\ e.timestamp > end)

\* The loop of query_time_range: None is falsy, a datetime never is.
InTimeRange(e, start, end) ==
    /\ ~(start # None /\ e.timestamp < start)
    /\ ~(end # None /\ e.timestamp >= end)

RECURSIVE TimeRangeEntries(_, _, _)
TimeRangeEntries(ix, start, end) ==
    IF ix = << >> THEN << >>
    ELSE (IF InTimeRange(Head(ix), start, end) THEN << Head(ix) >> ELSE << >>)
         \o TimeRangeEntries(Tail(ix), start, end)

\* A faulty site filter: entry.site_id != site_id.
RECURSIVE SiteEntriesNegated(_, _)
SiteEntriesNegated(ix, site) ==
    IF ix = << >> THEN << >>
    ELSE (IF Head(ix).site_id # site THEN << Head(ix) >> ELSE << >>)
         \o SiteEntriesNegated(Tail(ix), site)

RECURSIVE SiteEntries(_, _)
SiteEntries(ix, site) ==
    IF ix = << >> THEN << >>
    ELSE (IF Head(ix).site_id = site THEN << Head(ix) >> ELSE << >>)
         \o SiteEntries(Tail(ix), site)

RECURSIVE RegionEntries(_, _)
RegionEntries(ix, region) ==
    IF ix = << >> THEN << >>
    ELSE (IF Head(ix).region_id = region THEN << Head(ix) >> ELSE << >>)
         \o RegionEntries(Tail(ix), region)

\* A faulty get_sites that leaves out the last entry of the index.
SiteSetButLast(ix) == { ix[i].site_id : i \in 1..(Len(ix) - 1) }

\* {entry.site_id for entry in self._index}
SiteSet(ix) == { ix[i].site_id : i \in 1..Len(ix) }

\* {entry.region_id for entry in self._index}
RegionSet(ix) == { ix[i].region_id : i \in 1..Len(ix) }

(* ------------------------------ the Store ------------------------------ *)

\* IndexedJsonlStore(path): a new handle on the same path.
Open(h) ==
    /\ index' = [index EXCEPT ![h] = << >>]
    /\ loaded' = [loaded EXCEPT ![h] = FALSE]
    /\ sync' = [sync EXCEPT ![h] = FALSE]
    /\ last' = [op |-> "open", h |-> h]
    /\ present' = TRUE
    /\ UNCHANGED << log, sidecar, appended, origin, held, threads >>

\* A faulty append that takes line_start once, before the loop: every
\* entry of a batch gets the offset of the batch's first line.
RECURSIVE NewEntriesSameStart(_, _)
NewEntriesSameStart(start, recs) ==
    IF recs = << >> THEN << >>
    ELSE LET r == Head(recs)
         IN  << IndexEntry(start, ByteLen(JsonLine(r)), r.timestamp,
                           r.site_id, r.region_id) >>
             \o NewEntriesSameStart(start, Tail(recs))

\* The lines append writes and the entries it makes for them: line_start
\* is fp.tell() before the write, length counts the newline.
RECURSIVE NewEntries(_, _)
NewEntries(start, recs) ==
    IF recs = << >> THEN << >>
    ELSE LET r == Head(recs)
         IN  << IndexEntry(start, ByteLen(JsonLine(r)), r.timestamp,
                           r.site_id, r.region_id) >>
             \o NewEntries(start + ByteLen(JsonLine(r)), Tail(recs))

RECURSIVE NewLines(_)
NewLines(recs) ==
    IF recs = << >> THEN << >>
    ELSE << JsonLine(Head(recs)) >> \o NewLines(Tail(recs))

Batches == UNION { [1..k -> RecordSet] : k \in BatchSizes }

\* A faulty append that opens the Log with mode "w": the lines it writes
\* replace the Log.
AppendRecordsTruncating(h, recs) ==
    /\ Len(log) + Len(recs) <= MaxLines
    /\ LET ld == LoadIndex(index[h], loaded[h], log, sidecar)
           ix == ld.index \o NewEntries(0, recs)
       IN  /\ log' = NewLines(recs)
           /\ index' = [index EXCEPT ![h] = ix]
           /\ sidecar' = SaveIndex(ix)
           /\ last' = [op |-> "append", h |-> h, path |-> ld.path,
                       sidecar_by |-> origin, records |-> recs,
                       save |-> "ok", raised |-> FALSE, res |-> Len(recs)]
    /\ loaded' = [loaded EXCEPT ![h] = TRUE]
    /\ appended' = appended \o recs
    /\ present' = TRUE
    /\ UNCHANGED << origin, sync, held, threads >>

\* What append(records) does to the Store object and to the files.
StoreAppend(h, recs) ==
    /\ Len(log) + Len(recs) <= MaxLines
    /\ Len(LoadIndex(index[h], loaded[h], log, sidecar).index) + Len(recs)
         <= MaxLines
    /\ LET ld == LoadIndex(index[h], loaded[h], log, sidecar)
           ix == ld.index \o NewEntries(FileSize(log), recs)
       IN  /\ log' = log \o NewLines(recs)
           /\ index' = [index EXCEPT ![h] = ix]
           /\ sidecar' = SaveIndex(ix)
           /\ last' = [op |-> "append", h |-> h, path |-> ld.path,
                       sidecar_by |-> origin, records |-> recs,
                       save |-> "ok", raised |-> FALSE, res |-> Len(recs)]
           /\ sync' = [g \in Handles |->
                         IF g = h THEN SyncAfterLoad(h, ld.path)
                         ELSE sync[g] /\ recs = << >>]
           /\ origin' = IF SyncAfterLoad(h, ld.path) THEN "sync" ELSE "stale"
    /\ loaded' = [loaded EXCEPT ![h] = TRUE]
    /\ appended' = appended \o recs
    /\ held' = IF recs = << >> THEN held ELSE [g \in Handles |-> NotHeld]
    /\ present' = TRUE

\* append(records)
AppendRecords(h, recs) ==
    /\ StoreAppend(h, recs)
    /\ UNCHANGED threads

\* How _save_index fails: "open" when the sidecar cannot be opened for
\* writing, "dump" when pickle.dump raises after open("wb") has truncated
\* the file.  Either exception is logged and swallowed.
SaveFailures == {"open", "dump"}

\* The sidecar a failed _save_index leaves, sc being the sidecar before.
SaveIndexFails(sc, out) == IF out = "open" THEN sc ELSE Garbage

\* append(records) with the Log written and the final _save_index failing.
AppendSaveFails(h, recs, out) ==
    /\ Len(log) + Len(recs) <= MaxLines
    /\ Len(LoadIndex(index[h], loaded[h], log, sidecar).index) + Len(recs)
         <= MaxLines
    /\ LET ld == LoadIndex(index[h], loaded[h], log, sidecar)
           ix == ld.index \o NewEntries(FileSize(log), recs)
       IN  /\ log' = log \o NewLines(recs)
           /\ index' = [index EXCEPT ![h] = ix]
           /\ sidecar' = SaveIndexFails(ld.sidecar, out)
           /\ last' = [op |-> "append", h |-> h, path |-> ld.path,
                       sidecar_by |-> origin, records |-> recs,
                       save |-> out, raised |-> FALSE, res |-> Len(recs)]
           /\ sync' = [g \in Handles |->
                         IF g = h THEN SyncAfterLoad(h, ld.path)
                         ELSE sync[g] /\ recs = << >>]
           /\ origin' = "unsaved"
    /\ loaded' = [loaded EXCEPT ![h] = TRUE]
    /\ appended' = appended \o recs
    /\ held' = IF recs = << >> THEN held ELSE [g \in Handles |-> NotHeld]
    /\ present' = TRUE
    /\ UNCHANGED threads

\* append(records) with the iteration or the Log write raising after j
\* records were written: fp.tell() and the close of the file flush the j
\* lines to the Log, the Index is not extended, the sidecar not saved, and
\* the exception is raised again.
AppendWriteFails(h, recs, j) ==
    /\ j < Len(recs)
    /\ Len(log) + Len(recs) <= MaxLines
    /\ LET ld == LoadIndex(index[h], loaded[h], log, sidecar)
       IN  /\ log' = log \o NewLines(SubSeq(recs, 1, j))
           /\ index' = [index EXCEPT ![h] = ld.index]
           /\ sidecar' = ld.sidecar
           /\ last' = [op |-> "append", h |-> h, path |-> ld.path,
                       sidecar_by |-> origin, records |-> recs,
                       save |-> "none", io |-> "write", raised |-> TRUE,
                       res |-> 0]
           /\ sync' = [g \in Handles |-> sync[g] /\ j = 0]
           /\ origin' = IF j = 0 THEN OriginAfterLoad(ld) ELSE "stale"
    /\ loaded' = [loaded EXCEPT ![h] = TRUE]
    /\ held' = IF j = 0 THEN held ELSE [g \in Handles |-> NotHeld]
    /\ present' = TRUE
    /\ UNCHANGED << appended, threads >>

\* A faulty query that saves the Index after its load.
AnswerSavesIndex(h, call, ld, res) ==
    /\ index' = [index EXCEPT ![h] = ld.index]
    /\ loaded' = [loaded EXCEPT ![h] = TRUE]
    /\ sidecar' = SaveIndex(ld.index)
    /\ sync' = [sync EXCEPT ![h] = SyncAfterLoad(h, ld.path)]
    /\ origin' = OriginAfterLoad(ld)
    /\ last' = call @@ [h |-> h, path |-> ld.path, sidecar_by |-> origin,
                        raised |-> FALSE, res |-> res]
    /\ UNCHANGED << log, appended, held, present, threads >>

\* The part every indexed query shares: _load_index, the offsets the
\* query picks from the index, _read_records_by_offsets.
Answer(h, call, ld, res) ==
    /\ index' = [index EXCEPT ![h] = ld.index]
    /\ loaded' = [loaded EXCEPT ![h] = TRUE]
    /\ sidecar' = ld.sidecar
    /\ sync' = [sync EXCEPT ![h] = SyncAfterLoad(h, ld.path)]
    /\ origin' = OriginAfterLoad(ld)
    /\ last' = call @@ [h |-> h, path |-> ld.path, sidecar_by |-> origin,
                        raised |-> FALSE, res |-> res]
    /\ UNCHANGED << log, appended, held, present, threads >>

\* all(): a missing Log raises FileNotFoundError, answered with [].
All(h) ==
    /\ LET r == IF present THEN ReadRecords(log, 1, << >>)
                ELSE [raised |-> FALSE, records |-> << >>]
       IN  last' = [op |-> "all", h |-> h, path |-> "none",
                    sidecar_by |-> origin, raised |-> r.raised,
                    res |-> r.records]
    /\ UNCHANGED << log, sidecar, index, loaded, appended, origin, sync, held,
                    present, threads >>

(* ------------------------------ summary ------------------------------- *)

RECURSIVE Rates(_)
Rates(rs) ==
    IF rs = << >> THEN << >>
    ELSE << Head(rs).emission_rate_kg_per_h >> \o Rates(Tail(rs))

RECURSIVE Sum(_)
Sum(vals) == IF vals = << >> THEN 0 ELSE Head(vals) + Sum(Tail(vals))

RECURSIVE Gcd(_, _)
Gcd(a, b) == IF b = 0 THEN a ELSE Gcd(b, a % b)

\* The float a / b, kept as the fraction in lowest terms.
Float(a, b) == [num |-> a \div Gcd(a, b), den |-> b \div Gcd(a, b)]

MinOf(vals) == CHOOSE v \in { vals[i] : i \in 1..Len(vals) } :
                   \A i \in 1..Len(vals) : v <= vals[i]

MaxOf(vals) == CHOOSE v \in { vals[i] : i \in 1..Len(vals) } :
                   \A i \in 1..Len(vals) : v >= vals[i]

\* The statistics summary() computes from the records all() returned.
Statistics(records) ==
    LET vals == Rates(records)
    IN  IF vals = << >>
        THEN [count |-> 0, mean |-> Float(0, 1), min |-> Float(0, 1),
              max |-> Float(0, 1)]
        ELSE [count |-> Len(vals), mean |-> Float(Sum(vals), Len(vals)),
              min |-> Float(MinOf(vals), 1), max |-> Float(MaxOf(vals), 1)]

\* summary(): what all() raises, summary() raises.
Summary(h) ==
    /\ LET r == IF present THEN ReadRecords(log, 1, << >>)
                ELSE [raised |-> FALSE, records |-> << >>]
       IN  last' = [op |-> "summary", h |-> h, path |-> "none",
                    sidecar_by |-> origin, raised |-> r.raised,
                    res |-> IF r.raised THEN << >> ELSE Statistics(r.records)]
    /\ UNCHANGED << log, sidecar, index, loaded, appended, origin, sync, held,
                    present, threads >>

\* The dict to_dicts() makes of a record: the timestamp as the ISO string
\* of the UTC instant, the other three fields as they are.
AsDict(r) ==
    [timestamp |-> [fmt |-> "iso", inst |-> r.timestamp],
     site_id |-> r.site_id, region_id |-> r.region_id,
     emission_rate_kg_per_h |-> r.emission_rate_kg_per_h]

\* to_dicts(): the dicts of the records all() returned; what all()
\* raises, to_dicts() raises.
ToDicts(h) ==
    /\ LET r == IF present THEN ReadRecords(log, 1, << >>)
                ELSE [raised |-> FALSE, records |-> << >>]
       IN  last' = [op |-> "to_dicts", h |-> h, path |-> "none",
                    sidecar_by |-> origin, raised |-> r.raised,
                    res |-> IF r.raised THEN << >>
                            ELSE [i \in 1..Len(r.records) |->
                                     AsDict(r.records[i])]]
    /\ UNCHANGED << log, sidecar, index, loaded, appended, origin, sync, held,
                    present, threads >>

\* tail(n)
TailQuery(h, n) ==
    LET ld == LoadIndex(index[h], loaded[h], log, sidecar)
    IN  Answer(h, [op |-> "tail", n |-> n], ld,
               IF ld.index = << >> THEN << >>
               ELSE ReadRecordsByOffsets(log, Offsets(TailEntries(ld.index, n))))

\* _read_records_by_offsets with the Log read raising OSError after k of
\* the offsets were read: the outer handler logs the exception and the
\* records read so far are returned.
ReadRecordsByOffsetsFails(lg, offs, k) ==
    ReadSorted(lg, SubSeq(Sorted(offs), 1, k), << >>)

\* tail(n) with the Log read failing after k lines.
TailReadFails(h, n, k) ==
    LET ld == LoadIndex(index[h], loaded[h], log, sidecar)
        offs == Offsets(TailEntries(ld.index, n))
    IN  /\ ld.index # << >>
        /\ k < Len(offs)
        /\ Answer(h, [op |-> "tail", n |-> n, io |-> "read"], ld,
                  ReadRecordsByOffsetsFails(log, offs, k))

\* get_sites() on a handle whose _load_index rebuilds, with the Log read
\* of the scan raising OSError: the outer handler of _rebuild_index logs
\* it and empties the Index, and nothing is saved.
GetSitesScanFails(h) ==
    /\ ~loaded[h]
    /\ sidecar.st # "list"
    /\ present
    /\ FileSize(log) > 0
    /\ index' = [index EXCEPT ![h] = << >>]
    /\ loaded' = [loaded EXCEPT ![h] = TRUE]
    /\ sync' = [sync EXCEPT ![h] = FALSE]
    /\ last' = [op |-> "get_sites", h |-> h, path |-> "rebuilt-failed",
                sidecar_by |-> origin, io |-> "read", raised |-> FALSE,
                res |-> {}]
    /\ UNCHANGED << log, sidecar, appended, origin, held, present, threads >>

\* query_time_range(start, end)
QueryTimeRange(h, start, end) ==
    LET ld == LoadIndex(index[h], loaded[h], log, sidecar)
    IN  Answer(h, [op |-> "query_time_range", start |-> start, end |-> end], ld,
               IF ld.index = << >> THEN << >>
               ELSE ReadRecordsByOffsets(
                        log, Offsets(TimeRangeEntries(ld.index, start, end))))

\* query_by_site(site_id)
QueryBySite(h, site) ==
    LET ld == LoadIndex(index[h], loaded[h], log, sidecar)
    IN  Answer(h, [op |-> "query_by_site", key |-> site], ld,
               ReadRecordsByOffsets(log, Offsets(SiteEntries(ld.index, site))))

\* query_by_region(region_id)
QueryByRegion(h, region) ==
    LET ld == LoadIndex(index[h], loaded[h], log, sidecar)
    IN  Answer(h, [op |-> "query_by_region", key |-> region], ld,
               ReadRecordsByOffsets(log, Offsets(RegionEntries(ld.index, region))))

\* get_sites()
GetSites(h) ==
    LET ld == LoadIndex(index[h], loaded[h], log, sidecar)
    IN  Answer(h, [op |-> "get_sites"], ld, SiteSet(ld.index))

\* get_regions()
GetRegions(h) ==
    LET ld == LoadIndex(index[h], loaded[h], log, sidecar)
    IN  Answer(h, [op |-> "get_regions"], ld, RegionSet(ld.index))

(* --------------------------- the environment -------------------------- *)

\* The sidecar file is removed.
DeleteSidecar ==
    /\ sidecar' = Absent
    /\ origin' = "none"
    /\ held' = [h \in Handles |->
                  [ok |-> loaded[h] /\ sync[h], index |-> index[h]]]
    /\ last' = [op |-> "delete_sidecar"]
    /\ UNCHANGED << log, index, loaded, appended, sync, present, threads >>

\* The Log file is removed, with the records it held.
RemoveLog ==
    /\ present
    /\ log' = << >>
    /\ appended' = << >>
    /\ present' = FALSE
    /\ sync' = [h \in Handles |-> sync[h] /\ log = << >>]
    /\ origin' = IF origin = "sync" /\ log # << >> THEN "stale" ELSE origin
    /\ held' = IF log = << >> THEN held ELSE [h \in Handles |-> NotHeld]
    /\ last' = [op |-> "remove_log"]
    /\ UNCHANGED << sidecar, index, loaded, threads >>

\* Lines other writers leave in the Log: the malformed kinds, a line with
\* a timestamp parse_timestamp rejects, and well-formed lines with a Z
\* timestamp.
ExternalChunks ==
    { Malformed("nonjson", TRUE), Malformed("nokey", TRUE),
      Malformed("nonobj", TRUE), Malformed("blank", TRUE),
      Malformed("partial", FALSE),
      Chunk("json", "bad", 0, "site-1", "region-1", 5, TRUE),
      Chunk("json", "z", 1, "site-1", "region-1", 5, TRUE),
      Chunk("json", "z", 2, "site-2", "region-2", 6, TRUE) }

\* Another writer appends a chunk to the Log file.
ExternalWrite(c) ==
    /\ Len(log) < MaxLines
    /\ log' = Append(log, c)
    /\ sync' = [h \in Handles |-> FALSE]
    /\ origin' = IF origin = "sync" THEN "stale" ELSE origin
    /\ held' = [h \in Handles |-> NotHeld]
    /\ last' = [op |-> "external_write"]
    /\ present' = TRUE
    /\ UNCHANGED << sidecar, index, loaded, appended, threads >>

\* The sidecar is overwritten with bytes the Store did not write: bytes
\* pickle.load rejects, or the pickle of an empty list.
ForeignSidecars == { Garbage, Pickled(<< >>) }

CorruptSidecar(sc) ==
    /\ sidecar' = sc
    /\ origin' = "foreign"
    /\ last' = [op |-> "corrupt_sidecar"]
    /\ UNCHANGED << log, index, loaded, appended, sync, held, present,
                    threads >>

\* s, last element first.
Reverse(s) == [i \in 1..Len(s) |-> s[Len(s) + 1 - i]]

\* Sidecars that unpickle to a list that is no Index: the entries of two
\* lines, the entry of the later line first.
InconsistentSidecars ==
    { Pickled(Reverse(NewEntries(0, recs))) :
        recs \in { b \in Batches :
                     /\ Len(b) = 2
                     /\ b[1] # b[2]
                     /\ \A i \in 1..2 : b[i].source = "test" } }

(* ------------------------------ threads ------------------------------- *)

\* The code takes no lock, so the calls that threads make on one Store
\* object run interleaved.  A thread's call is a sequence of steps; what a
\* step reads of the Store object or of the files is what is there when
\* the step is taken.

Threads == DOMAIN threads

AllIdle == \A t \in Threads : threads[t] = Idle

\* The records threads append and the n they give tail.
ThreadRecords == { r \in RecordSet : r.source = "test" }

ThreadTailArgs == {MaxLines + 1}

\* The batches a call of append is given when calls do not overlap.
ThreadBatches == UNION { [1..k -> ThreadRecords] : k \in BatchSizes }

\* The lines the append thread t is in has yet to write.
Remaining(t) ==
    IF threads[t] = Idle THEN 0
    ELSE IF threads[t].op # "append" THEN 0
    ELSE IF threads[t].pc \in {"load", "scan", "loaded", "write"}
         THEN Len(threads[t].arg) - Len(threads[t].new_entries)
    ELSE 0

RECURSIVE UnwrittenOf(_)
UnwrittenOf(S) ==
    IF S = {} THEN 0
    ELSE LET t == CHOOSE x \in S : TRUE
         IN  Remaining(t) + UnwrittenOf(S \ {t})

\* The lines the appends under way have yet to write.
Unwritten == UnwrittenOf(Threads)

Appending == \E t \in Threads : threads[t] # Idle /\ threads[t].op = "append"

Call(t, h, op, arg) ==
    threads' = [threads EXCEPT ![t] =
                  [pc |-> "load", h |-> h, op |-> op, arg |-> arg,
                   i |-> 0, start |-> 0, new_entries |-> << >>,
                   base |-> IF loaded[h] THEN Len(index[h])
                            ELSE Len(Scan(log, 1, << >>).entries),
                   used |-> << >>, res |-> << >>]]

\* A thread calls append(recs).
CallAppend(t, h, recs) ==
    /\ threads[t] = Idle
    /\ Len(log) + Unwritten + Len(recs) <= MaxLines
    /\ Call(t, h, "append", recs)
    /\ UNCHANGED << log, sidecar, index, loaded, appended, origin, sync, held,
                    last, present >>

\* A thread calls tail(n).
CallTail(t, h, n) ==
    /\ threads[t] = Idle
    /\ Call(t, h, "tail", n)
    /\ UNCHANGED << log, sidecar, index, loaded, appended, origin, sync, held,
                    last, present >>

\* _load_index up to the scan: nothing to do on a loaded handle; the
\* sidecar's list becomes self._index; without a readable sidecar
\* _rebuild_index sets self._index = [] and, on a missing or empty Log,
\* returns.
LoadStep(t) ==
    LET h == threads[t].h
        scans == sidecar.st # "list" /\ present /\ FileSize(log) > 0
    IN  /\ threads[t].pc = "load"
        /\ index' = [index EXCEPT ![h] =
                        IF loaded[h] THEN @
                        ELSE IF sidecar.st = "list" THEN sidecar.entries
                        ELSE << >>]
        /\ loaded' = [loaded EXCEPT ![h] = @ \/ ~scans]
        /\ threads' = [threads EXCEPT ![t].pc =
                          IF loaded[h] \/ ~scans THEN "loaded" ELSE "scan",
                                      ![t].i = 1]
        /\ UNCHANGED << log, sidecar, appended, origin, sync, held, last,
                        present >>

\* One turn of the scan loop of _rebuild_index: at the end of the file
\* _save_index and, in _load_index, _index_loaded = True; otherwise
\* readline() and self._index.append(entry) for a line that decodes.
ScanStep(t) ==
    LET h == threads[t].h
        i == threads[t].i
        what == IF i > Len(log) THEN "eof" ELSE ScanLine(LineAt(log, i))
    IN  /\ threads[t].pc = "scan"
        /\ index' = [index EXCEPT ![h] =
                        CASE what = "entry" -> Append(@, ScanEntry(log, i))
                          [] what = "abort" -> << >>
                          [] OTHER -> @]
        /\ sidecar' = IF what = "eof" THEN SaveIndex(index[h]) ELSE sidecar
        /\ loaded' = [loaded EXCEPT ![h] = @ \/ what \in {"eof", "abort"}]
        /\ threads' = [threads EXCEPT
                          ![t].pc = IF what \in {"eof", "abort"}
                                    THEN "loaded" ELSE "scan",
                          ![t].i = IF what \in {"eof", "abort"}
                                   THEN i ELSE LineEnd(log, i) + 1]
        /\ UNCHANGED << log, appended, origin, sync, held, last, present >>

\* append: the Log is opened with mode "a"; the position of the file
\* object, which the first fp.tell() returns, is the size the file has
\* now.  With no record to write the file is closed again.
AppendOpen(t) ==
    /\ threads[t].pc = "loaded"
    /\ threads[t].op = "append"
    /\ threads' = [threads EXCEPT
                      ![t].pc = IF threads[t].arg = << >> THEN "extend"
                                ELSE "write",
                      ![t].start = FileSize(log)]
    /\ present' = TRUE
    /\ UNCHANGED << log, sidecar, index, loaded, appended, origin, sync, held,
                    last >>

\* append: one turn of the loop.  The entry gets line_start, the position
\* of the file object; fp.write(line) buffers the line, and the next
\* fp.tell(), or the close of the file after the last record, puts it at
\* the end the file has then and leaves the position behind it.
AppendWrite(t) ==
    LET r == threads[t].arg[Len(threads[t].new_entries) + 1]
        line == JsonLine(r)
        entry == IndexEntry(threads[t].start, ByteLen(line), r.timestamp,
                            r.site_id, r.region_id)
    IN  /\ threads[t].pc = "write"
        /\ log' = Append(log, line)
        /\ appended' = Append(appended, r)
        /\ threads' = [threads EXCEPT
                          ![t].pc = IF Len(threads[t].new_entries) + 1
                                         = Len(threads[t].arg)
                                    THEN "extend" ELSE "write",
                          ![t].start = FileSize(Append(log, line)),
                          ![t].new_entries = Append(@, entry)]
        /\ UNCHANGED << sidecar, index, loaded, origin, sync, held, last,
                        present >>

\* A faulty append that assigns new_entries to self._index instead of
\* extending it.
AppendExtendReplaces(t) ==
    LET h == threads[t].h
    IN  /\ threads[t].pc = "extend"
        /\ index' = [index EXCEPT ![h] = threads[t].new_entries]
        /\ threads' = [threads EXCEPT ![t].pc = "save"]
        /\ UNCHANGED << log, sidecar, loaded, appended, origin, sync, held,
                        last, present >>

\* append: self._index.extend(new_entries)
AppendExtend(t) ==
    LET h == threads[t].h
    IN  /\ threads[t].pc = "extend"
        /\ index' = [index EXCEPT ![h] =
                        @ \o threads[t].new_entries]
        /\ threads' = [threads EXCEPT ![t].pc = "save"]
        /\ UNCHANGED << log, sidecar, loaded, appended, origin, sync, held,
                        last, present >>

\* append: self._save_index() and return count
AppendSave(t) ==
    /\ threads[t].pc = "save"
    /\ sidecar' = SaveIndex(index[threads[t].h])
    /\ threads' = [threads EXCEPT ![t].pc = "done",
                                  ![t].res = Len(threads[t].arg)]
    /\ UNCHANGED << log, index, loaded, appended, origin, sync, held, last,
                    present >>

\* tail: the slice of self._index and _read_records_by_offsets
TailRead(t) ==
    LET h == threads[t].h
    IN  /\ threads[t].pc = "loaded"
        /\ threads[t].op = "tail"
        /\ threads' = [threads EXCEPT
                          ![t].pc = "done",
                          ![t].used = index[h],
                          ![t].res =
                              IF index[h] = << >> THEN << >>
                              ELSE ReadRecordsByOffsets(
                                       log, Offsets(TailEntries(
                                                index[h], threads[t].arg)))]
        /\ UNCHANGED << log, sidecar, index, loaded, appended, origin, sync,
                        held, last, present >>

\* The call returns.
Return(t) ==
    /\ threads[t].pc = "done"
    /\ threads' = [threads EXCEPT ![t] = Idle]
    /\ UNCHANGED << log, sidecar, index, loaded, appended, origin, sync, held,
                    last, present >>

(* ------------------------ core/orchestrator.py ------------------------ *)

\* Orchestrator.max_retries, the default of the dataclass field.
max_retries == 3

\* The values the field is given.
RetryLimits == 0..max_retries

\* What run_once raises: the two classes run_with_retries retries on, and
\* one it does not.
Retryable == {"ConnectionError", "OSError"}

Exceptions == Retryable \cup {"ValueError"}

\* A thread calls run_with_retries() of an Orchestrator whose store is
\* the handle h: attempt = 0, delay = 1.0, last_exception = None.
CallRunWithRetries(t, h, m) ==
    /\ threads[t] = Idle
    /\ threads' = [threads EXCEPT ![t] =
                      [pc |-> "try", op |-> "run_with_retries", h |-> h,
                       max_retries |-> m, attempt |-> 0, delay |-> 1,
                       last_exception |-> "none", outcomes |-> << >>,
                       res |-> 0, raised |-> "none"]]
    /\ UNCHANGED << log, sidecar, index, loaded, appended, origin, sync, held,
                    last, present >>

\* run_once() succeeds: the ingested and processed records are appended
\* to the store, and run_with_retries returns the count.
RunOnceOk(t, recs) ==
    /\ threads[t].pc = "try"
    /\ StoreAppend(threads[t].h, recs)
    /\ threads' = [threads EXCEPT
                      ![t].pc = "done",
                      ![t].res = Len(recs),
                      ![t].outcomes =
                          Append(@, [out |-> "ok", count |-> Len(recs)])]

\* A faulty handler that gives up when attempt reaches max_retries.
RunOnceFailsGivesUpEarly(t, exc) ==
    LET attempt == threads[t].attempt + 1
        retry == exc \in Retryable /\ attempt < threads[t].max_retries
    IN  /\ threads[t].pc = "try"
        /\ threads' = [threads EXCEPT
                          ![t].pc = IF retry THEN "sleep" ELSE "done",
                          ![t].attempt = IF exc \in Retryable THEN attempt
                                         ELSE @,
                          ![t].last_exception = IF exc \in Retryable THEN exc
                                                ELSE @,
                          ![t].raised = IF retry THEN @ ELSE exc,
                          ![t].outcomes = Append(@, [out |-> exc, count |-> 0])]
        /\ UNCHANGED << log, sidecar, index, loaded, appended, origin, sync,
                        held, last, present >>

\* run_once() raises exc in ingest or in a processor, before the store is
\* touched.  ConnectionError and OSError: attempt += 1, and the exception
\* is raised again when attempt > max_retries; any other exception is
\* raised again at once.
RunOnceFails(t, exc) ==
    LET attempt == threads[t].attempt + 1
        retry == exc \in Retryable /\ ~(attempt > threads[t].max_retries)
    IN  /\ threads[t].pc = "try"
        /\ threads' = [threads EXCEPT
                          ![t].pc = IF retry THEN "sleep" ELSE "done",
                          ![t].attempt = IF exc \in Retryable THEN attempt
                                         ELSE @,
                          ![t].last_exception = IF exc \in Retryable THEN exc
                                                ELSE @,
                          ![t].raised = IF retry THEN @ ELSE exc,
                          ![t].outcomes = Append(@, [out |-> exc, count |-> 0])]
        /\ UNCHANGED << log, sidecar, index, loaded, appended, origin, sync,
                        held, last, present >>

\* time.sleep(delay); delay = min(delay * 2, 30.0)
Sleep(t) ==
    /\ threads[t].pc = "sleep"
    /\ threads' = [threads EXCEPT
                      ![t].pc = "try",
                      ![t].delay = IF @ * 2 <= 30 THEN @ * 2 ELSE 30]
    /\ UNCHANGED << log, sidecar, index, loaded, appended, origin, sync, held,
                    last, present >>

\* The call of run_once() in the loop, whatever its outcome.
RunOnce(t) ==
    \/ \E recs \in Batches : RunOnceOk(t, recs)
    \/ \E exc \in Exceptions : RunOnceFails(t, exc)

(* --------------------------- specifications --------------------------- *)

\* The Store's operations, and the sidecar's deletion, on a Log that only
\* the Store writes.
Next ==
    \/ \E h \in Handles : Open(h)
    \/ \E h \in Handles, recs \in Batches : AppendRecords(h, recs)
    \/ \E h \in Handles : All(h)
    \/ \E h \in Handles, n \in TailArgs : TailQuery(h, n)
    \/ \E h \in Handles, start, end \in Times \cup {None} :
            QueryTimeRange(h, start, end)
    \/ \E h \in Handles, site \in Sites : QueryBySite(h, site)
    \/ \E h \in Handles, region \in Regions : QueryByRegion(h, region)
    \/ \E h \in Handles : GetSites(h)
    \/ \E h \in Handles : GetRegions(h)
    \/ \E h \in Handles : Summary(h)
    \/ \E h \in Handles : ToDicts(h)
    \/ DeleteSidecar

Spec == Init /\ [][Next]_vars

\* Other writers of the Log and of the sidecar, with the Store operations
\* that load the index, write the Log or scan it.
NextEnv ==
    \/ \E h \in Handles : Open(h)
    \/ \E h \in Handles, recs \in Batches : AppendRecords(h, recs)
    \/ \E h \in Handles : All(h)
    \/ \E h \in Handles, n \in TailArgs : TailQuery(h, n)
    \/ \E h \in Handles : GetSites(h)
    \/ \E h \in Handles : Summary(h)
    \/ DeleteSidecar
    \/ \E c \in ExternalChunks : ExternalWrite(c)
    \/ \E sc \in ForeignSidecars : CorruptSidecar(sc)

SpecEnv == Init /\ [][NextEnv]_vars

\* The Store's operations on a Log that only the Store writes and that
\* is removed at some time, the sidecar staying behind.
NextLost ==
    \/ \E h \in Handles : Open(h)
    \/ \E h \in Handles, recs \in Batches : AppendRecords(h, recs)
    \/ \E h \in Handles : All(h)
    \/ \E h \in Handles : Summary(h)
    \/ \E h \in Handles, n \in TailArgs : TailQuery(h, n)
    \/ \E h \in Handles : GetSites(h)
    \/ RemoveLog

SpecLost == Init /\ [][NextLost]_vars

\* The Store's operations beside another writer of the Log.
NextCache ==
    \/ \E h \in Handles : Open(h)
    \/ \E h \in Handles, recs \in Batches : AppendRecords(h, recs)
    \/ \E h \in Handles, n \in TailArgs : TailQuery(h, n)
    \/ \E h \in Handles, start, end \in Times \cup {None} :
            QueryTimeRange(h, start, end)
    \/ \E h \in Handles, site \in Sites : QueryBySite(h, site)
    \/ \E h \in Handles, region \in Regions : QueryByRegion(h, region)
    \/ \E h \in Handles : GetSites(h)
    \/ \E h \in Handles : GetRegions(h)
    \/ \E c \in ExternalChunks : ExternalWrite(c)

SpecCache == Init /\ [][NextCache]_vars

\* Threads appending through one Store object, their calls overlapping.
NextConc ==
    \/ \E t \in Threads, h \in Handles, rec \in ThreadRecords :
            CallAppend(t, h, << rec >>)
    \/ \E t \in Threads : LoadStep(t)
    \/ \E t \in Threads : ScanStep(t)
    \/ \E t \in Threads : AppendOpen(t)
    \/ \E t \in Threads : AppendWrite(t)
    \/ \E t \in Threads : AppendExtend(t)
    \/ \E t \in Threads : AppendSave(t)
    \/ \E t \in Threads : Return(t)
    \/ \E h \in Handles : AllIdle /\ Open(h)
    \/ AllIdle /\ DeleteSidecar

SpecConc == Init /\ [][NextConc]_vars

\* Threads querying one Store object while at most one thread appends.
NextSnap ==
    \/ \E t \in Threads, h \in Handles, rec \in ThreadRecords :
            ~Appending /\ CallAppend(t, h, << rec >>)
    \/ \E t \in Threads, h \in Handles, n \in ThreadTailArgs :
            CallTail(t, h, n)
    \/ \E t \in Threads : LoadStep(t)
    \/ \E t \in Threads : ScanStep(t)
    \/ \E t \in Threads : AppendOpen(t)
    \/ \E t \in Threads : AppendWrite(t)
    \/ \E t \in Threads : AppendExtend(t)
    \/ \E t \in Threads : AppendSave(t)
    \/ \E t \in Threads : TailRead(t)
    \/ \E t \in Threads : Return(t)
    \/ \E h \in Handles : AllIdle /\ Open(h)
    \/ AllIdle /\ DeleteSidecar

SpecSnap == Init /\ [][NextSnap]_vars

\* The Store's operations with the failures of its file operations.
NextFault ==
    \/ \E h \in Handles : Open(h)
    \/ \E h \in Handles, recs \in Batches : AppendRecords(h, recs)
    \/ \E h \in Handles, recs \in Batches, out \in SaveFailures :
            AppendSaveFails(h, recs, out)
    \/ \E h \in Handles, recs \in Batches, j \in 0..MaxLines :
            AppendWriteFails(h, recs, j)
    \/ \E h \in Handles, n \in TailArgs : TailQuery(h, n)
    \/ \E h \in Handles, n \in TailArgs, k \in 0..MaxLines :
            TailReadFails(h, n, k)
    \/ \E h \in Handles : GetSites(h)
    \/ \E h \in Handles : GetSitesScanFails(h)

SpecFault == Init /\ [][NextFault]_vars

\* The steps of append, one call at a time: no call begins before the
\* call before it has returned.
NextSeq ==
    \/ \E t \in Threads, h \in Handles, recs \in ThreadBatches :
            AllIdle /\ CallAppend(t, h, recs)
    \/ \E t \in Threads : LoadStep(t)
    \/ \E t \in Threads : ScanStep(t)
    \/ \E t \in Threads : AppendOpen(t)
    \/ \E t \in Threads : AppendWrite(t)
    \/ \E t \in Threads : AppendExtend(t)
    \/ \E t \in Threads : AppendSave(t)
    \/ \E t \in Threads : Return(t)
    \/ \E h \in Handles : AllIdle /\ Open(h)
    \/ AllIdle /\ DeleteSidecar

SpecSeq == Init /\ [][NextSeq]_vars

\* The Store's operations on a sidecar that other writers overwrite, with
\* bytes that do not unpickle or with the pickle of a list that is no
\* Index.
NextForeign ==
    \/ \E h \in Handles : Open(h)
    \/ \E h \in Handles, recs \in Batches : AppendRecords(h, recs)
    \/ \E h \in Handles, n \in TailArgs : TailQuery(h, n)
    \/ \E h \in Handles : GetSites(h)
    \/ DeleteSidecar
    \/ \E sc \in ForeignSidecars : CorruptSidecar(sc)
    \/ \E sc \in InconsistentSidecars : CorruptSidecar(sc)

SpecForeign == Init /\ [][NextForeign]_vars

\* A handle's first query beside other writers of the Log and of the
\* sidecar, step by step: the load, the scan of a rebuild, the read.  The
\* other writers write between the calls.
NextRecover ==
    \/ \E t \in Threads, h \in Handles, n \in ThreadTailArgs :
            AllIdle /\ CallTail(t, h, n)
    \/ \E t \in Threads : LoadStep(t)
    \/ \E t \in Threads : ScanStep(t)
    \/ \E t \in Threads : TailRead(t)
    \/ \E t \in Threads : Return(t)
    \/ \E h \in Handles : AllIdle /\ Open(h)
    \/ \E c \in ExternalChunks : AllIdle /\ ExternalWrite(c)
    \/ \E sc \in ForeignSidecars : AllIdle /\ CorruptSidecar(sc)
    \/ AllIdle /\ DeleteSidecar

\* A call that has begun runs on: each of its steps is taken when it can
\* be.
FairRecover ==
    \A t \in {1, 2} :
        /\ WF_vars(LoadStep(t))
        /\ WF_vars(ScanStep(t))
        /\ WF_vars(TailRead(t))
        /\ WF_vars(Return(t))

SpecRecover == Init /\ [][NextRecover]_vars /\ FairRecover

\* An Orchestrator on the Store, one run_with_retries at a time.
NextRetry ==
    \/ \E t \in Threads, h \in Handles, m \in RetryLimits :
            AllIdle /\ CallRunWithRetries(t, h, m)
    \/ \E t \in Threads, recs \in Batches : RunOnceOk(t, recs)
    \/ \E t \in Threads, exc \in Exceptions : RunOnceFails(t, exc)
    \/ \E t \in Threads : Sleep(t)
    \/ \E t \in Threads : Return(t)

\* run_once() and time.sleep() return: the loop of run_with_retries goes
\* on.
FairRetry ==
    \A t \in {1, 2} :
        /\ WF_vars(RunOnce(t))
        /\ WF_vars(Sleep(t))

SpecRetry == Init /\ [][NextRetry]_vars /\ FairRetry

\* Two handles on one path, their calls one after the other.
NextTwo ==
    \/ \E h \in Handles : Open(h)
    \/ \E h \in Handles, recs \in Batches : AppendRecords(h, recs)
    \/ \E h \in Handles : GetSites(h)

SpecTwo == InitTwo /\ [][NextTwo]_vars

(* ------------------------------ the claims ----------------------------- *)

Min(a, b) == IF a <= b THEN a ELSE b

LastK(s, k) == SubSeq(s, Len(s) - k + 1, Len(s))

\* The calls that begin with _load_index.
LoadingOps ==
    {"append", "tail", "query_time_range", "query_by_site",
     "query_by_region", "get_sites", "get_regions"}

\* Chunk i is a well-formed line of the Log: a whole physical line that is
\* a JSON object with the record's keys and a timestamp that parses.
WellFormedAt(lg, i) ==
    /\ LineStart(lg, i)
    /\ lg[i].nl
    /\ lg[i].kind = "json"
    /\ lg[i].fmt \in AcceptedFormats

\* The records of the well-formed lines from chunk i on, in Log order.
RECURSIVE LogRecords(_, _)
LogRecords(lg, i) ==
    IF i > Len(lg) THEN << >>
    ELSE (IF WellFormedAt(lg, i)
          THEN << [timestamp |-> lg[i].inst, site_id |-> lg[i].site_id,
                   region_id |-> lg[i].region_id,
                   emission_rate_kg_per_h |-> lg[i].rate] >>
          ELSE << >>) \o LogRecords(lg, i + 1)

\* The (offset, timestamp, site_id, region_id) of the well-formed lines
\* from chunk i on, in Log order.
RECURSIVE LogTuples(_, _)
LogTuples(lg, i) ==
    IF i > Len(lg) THEN << >>
    ELSE (IF WellFormedAt(lg, i)
          THEN << << Offset(lg, i), lg[i].inst, lg[i].site_id,
                     lg[i].region_id >> >>
          ELSE << >>) \o LogTuples(lg, i + 1)

\* The (offset, timestamp, site_id, region_id) of an index's entries.
RECURSIVE Tuples(_)
Tuples(ix) ==
    IF ix = << >> THEN << >>
    ELSE << << Head(ix).offset, Head(ix).timestamp, Head(ix).site_id,
               Head(ix).region_id >> >> \o Tuples(Tail(ix))

AllWellFormed(lg) == \A i \in 1..Len(lg) : WellFormedAt(lg, i)

(* C1 *)
\* C1 as stated: all() returns the appended records, in append order, each
\* equal to the appended record on every field.
C1_RoundTripAllFields ==
    last.op = "all" => ~last.raised /\ last.res = appended

\* C1, amended: all() returns exactly as many records as were appended, in
\* append order, each equal to the appended record on timestamp, site_id,
\* region_id and emission_rate_kg_per_h; the source tag is not stored and
\* comes back as "jsonl".
C1_RoundTripPersisted ==
    last.op = "all" =>
        /\ ~last.raised
        /\ Len(last.res) = Len(appended)
        /\ MapPersisted(last.res) = MapPersisted(appended)
        /\ \A i \in 1..Len(last.res) : last.res[i].source = "jsonl"

\* all() has returned two different records, appended with another source.
C1_Witness ==
    /\ last.op = "all"
    /\ Len(last.res) = 2
    /\ last.res[1] # last.res[2]
    /\ appended[1].source = "test"

(* C2 *)
\* C2: for n >= 1, tail(n) returns the records of the last min(n, |Index|)
\* entries of the Index, which has one entry per appended record, in
\* append order.
C2_TailLastN ==
    (last.op = "tail" /\ last.n >= 1) =>
        LET ix == index[last.h]
        IN  /\ Len(ix) = Len(appended)
            /\ MapPersisted(last.res)
                 = MapPersisted(LastK(appended, Min(last.n, Len(ix))))

\* tail(1) has answered on a Store of two different records.
C2_Witness ==
    /\ last.op = "tail"
    /\ last.n = 1
    /\ Len(appended) = 2
    /\ appended[1] # appended[2]
    /\ Len(last.res) = 1

(* C3 *)
\* C3: tail(0) returns the empty sequence on every Store.
C3_TailZeroEmpty ==
    (last.op = "tail" /\ last.n = 0) => last.res = << >>

(* C4 *)
\* C4: query_time_range(start, end) returns, in append order, exactly the
\* records whose timestamp t has (start absent or t >= start) and (end
\* absent or t < end); the Index holds each record's timestamp.
C4_TimeRangeHalfOpen ==
    last.op = "query_time_range" =>
        LET ix == index[last.h]
            In(r) == /\ (last.start = None \/ r.timestamp >= last.start)
                     /\ (last.end = None \/ r.timestamp < last.end)
        IN  /\ Len(ix) = Len(appended)
            /\ \A i \in 1..Len(ix) : ix[i].timestamp = appended[i].timestamp
            /\ MapPersisted(last.res) = MapPersisted(SelectSeq(appended, In))

\* A range [1, 2) has been asked of a Store holding a record at 2 appended
\* before a record at 1: the later one alone is returned.
C4_Witness ==
    /\ last.op = "query_time_range"
    /\ last.start = 1
    /\ last.end = 2
    /\ Len(appended) = 2
    /\ appended[1].timestamp = 2
    /\ appended[2].timestamp = 1
    /\ MapPersisted(last.res) = << Persisted(appended[2]) >>

(* C5 *)
\* C5: query_by_site(s) returns exactly the records whose site_id is s and
\* query_by_region(r) exactly those whose region_id is r, in append order.
C5_SiteRegionFilter ==
    /\ last.op = "query_by_site" =>
          LET In(r) == r.site_id = last.key
          IN  MapPersisted(last.res) = MapPersisted(SelectSeq(appended, In))
    /\ last.op = "query_by_region" =>
          LET In(r) == r.region_id = last.key
          IN  MapPersisted(last.res) = MapPersisted(SelectSeq(appended, In))

\* query_by_site has returned two different records of one site.
C5_Witness ==
    /\ last.op = "query_by_site"
    /\ Len(last.res) = 2
    /\ last.res[1].emission_rate_kg_per_h = 5
    /\ last.res[2].emission_rate_kg_per_h = 7

(* C6 *)
\* What query_by_site(s) answers in the current state of handle h.
SiteAnswer(h, s) ==
    ReadRecordsByOffsets(log, Offsets(SiteEntries(index[h], s)))

RECURSIVE SumLen(_, _)
SumLen(h, S) ==
    IF S = {} THEN 0
    ELSE LET s == CHOOSE x \in S : TRUE
         IN  Len(SiteAnswer(h, s)) + SumLen(h, S \ {s})

\* C6: get_sites() is the set of site_id values of the appended records,
\* and the answers of query_by_site over that set hold every appended
\* record exactly once, each answer in append order.
C6_SitePartition ==
    last.op = "get_sites" =>
        /\ last.res = { appended[i].site_id : i \in 1..Len(appended) }
        /\ SumLen(last.h, last.res) = Len(appended)
        /\ \A s \in last.res :
              LET In(r) == r.site_id = s
              IN  MapPersisted(SiteAnswer(last.h, s))
                    = MapPersisted(SelectSeq(appended, In))

\* get_sites() has returned two sites.
C6_Witness ==
    /\ last.op = "get_sites"
    /\ Cardinality(last.res) = 2
    /\ Len(appended) = 2

(* C7 *)
\* C7: with the sidecar overwritten by another writer, a handle that loads
\* answers tail(n), n >= 1, with the last min(n, count) records of a Log
\* whose lines are all well formed.
C7_CorruptSidecarSelfHeal ==
    (/\ last.op = "tail"
     /\ last.n >= 1
     /\ last.path # "cached"
     /\ last.sidecar_by = "foreign"
     /\ AllWellFormed(log)) =>
        /\ ~last.raised
        /\ MapPersisted(last.res)
             = LastK(LogRecords(log, 1),
                     Min(last.n, Len(LogRecords(log, 1))))

(* C8 *)
\* C8: a load that finds the sidecar deleted rebuilds an Index with the
\* same (offset, timestamp, site_id, region_id) tuples, in the same order,
\* as the Index a handle held when the sidecar was deleted, the Log having
\* been written since that handle loaded by nothing but the handle.
C8_RebuildIdempotent ==
    (/\ last.op \in LoadingOps \ {"append"}
     /\ last.path = "rebuilt-absent") =>
        \A g \in Handles :
            held[g].ok => Tuples(index[last.h]) = Tuples(held[g].index)

(* C9 *)
\* C9: a rebuild does not raise and leaves an Index with exactly one
\* entry per well-formed line of the Log, in Log order.
C9_RebuildSkipsMalformed ==
    (/\ last.op \in LoadingOps \ {"append"}
     /\ last.path \in {"rebuilt-absent", "rebuilt-corrupt"}) =>
        /\ ~last.raised
        /\ Tuples(index[last.h]) = LogTuples(log, 1)

(* C10 *)
\* C10: all() never raises and returns the records of the well-formed
\* lines of the Log, in Log order.
C10_FullScanSkipsMalformed ==
    last.op = "all" =>
        /\ ~last.raised
        /\ MapPersisted(last.res) = LogRecords(log, 1)

(* C11 *)
\* The calls that answer with a sequence of records.
SequenceOps ==
    {"all", "tail", "query_time_range", "query_by_site", "query_by_region"}

\* C11: on a Store whose Log is empty or missing, summary() returns
\* {count: 0, mean: 0, min: 0, max: 0}, the calls that answer with records
\* return no record, get_sites and get_regions return the empty set, and
\* none of them raises.  Stated for the calls of a handle that did not
\* hold an Index from before: a handle that loaded while the Log had
\* records keeps its Index.
C11_EmptyStoreDefaults ==
    (/\ log = << >>
     /\ last.op \in SequenceOps \cup {"summary", "get_sites", "get_regions"}
     /\ last.path # "cached") =>
        /\ ~last.raised
        /\ last.op \in SequenceOps => last.res = << >>
        /\ last.op \in {"get_sites", "get_regions"} => last.res = {}
        /\ last.op = "summary" => last.res = Statistics(<< >>)

(* C12 *)
\* C12: an append whose Log write succeeds and whose sidecar save fails
\* returns the number of records written, and the next load, by a new
\* handle, obtains an Index with one entry per record of the Log, the
\* records of that append included.
C12_SaveFailureRecovers ==
    /\ (last.op = "append" /\ last.save \in SaveFailures) =>
            ~last.raised /\ last.res = Len(last.records)
    /\ (/\ last.op \in LoadingOps \ {"append"}
        /\ last.path # "cached"
        /\ last.sidecar_by = "unsaved") =>
            Tuples(index[last.h]) = LogTuples(log, 1)

(* C13 *)
\* C13: a call in which reading or writing the Log fails, for a reason
\* other than the file not existing, raises; it does not answer with an
\* empty or partial result.
C13_IOFailurePropagates ==
    "io" \in DOMAIN last => last.raised

(* C14 *)
\* C14: a loaded handle, the Log having been written since it loaded by
\* nothing but the handle, holds as many Index entries as the Log has
\* well-formed lines.
C14_IndexCountsWellFormed ==
    \A h \in Handles :
        (loaded[h] /\ sync[h]) => Len(index[h]) = Len(LogTuples(log, 1))

(* C15 *)
\* Entry e is the entry of a record line of the Log: a line starts at its
\* offset and holds a record with its timestamp, site_id and region_id.
Describes(lg, e) ==
    \E i \in 1..Len(lg) :
        /\ Offset(lg, i) = e.offset
        /\ lg[i].kind = "json"
        /\ lg[i].inst = e.timestamp
        /\ lg[i].site_id = e.site_id
        /\ lg[i].region_id = e.region_id

\* C15: in every reachable state the offsets of a handle's Index are
\* strictly increasing, every entry is the entry of a record line of the
\* Log, and on a handle that follows the Log entry i is the entry of the
\* i-th record line.
C15_IndexInLogOrder ==
    \A h \in Handles :
        LET ix == index[h]
        IN  /\ \A i \in 1..(Len(ix) - 1) : ix[i].offset < ix[i + 1].offset
            /\ \A i \in 1..Len(ix) : Describes(log, ix[i])
            /\ (loaded[h] /\ sync[h] /\ AllWellFormed(log)) =>
                   Tuples(ix) = LogTuples(log, 1)

\* A handle holds an Index of two entries for two different records.
C15_Witness ==
    /\ Len(index[1]) = 2
    /\ index[1][1].offset < index[1][2].offset
    /\ index[1][1].timestamp # index[1][2].timestamp
    /\ last.op = "append"

(* C16 *)
\* C16: after every append the Index the handle maintains equals, entry
\* for entry and on all five fields, the Index a rebuild over the Log
\* produces.
C16_IncrementalEqualsRebuilt ==
    last.op = "append" => index[last.h] = Scan(log, 1, << >>).entries

(* C17 *)
\* C17: in every step of the Store the Log before the step is a prefix of
\* the Log after it, and a step that lengthens the Log is an append.
C17_LogAppendOnly ==
    [][/\ Len(log) <= Len(log')
       /\ SubSeq(log', 1, Len(log)) = log
       /\ log' # log => last'.op = "append"]_vars

\* An append has added a line to a Log that held one.
C17_Witness ==
    /\ last.op = "append"
    /\ Len(last.records) = 1
    /\ Len(log) = 2
    /\ log[1] # log[2]

(* C18 *)
\* What a query answers from the Index ix: the call is the record of its
\* name and arguments.
AnswerFrom(ix, call) ==
    CASE call.op = "tail" ->
           ReadRecordsByOffsets(log, Offsets(TailEntries(ix, call.n)))
      [] call.op = "query_time_range" ->
           ReadRecordsByOffsets(
               log, Offsets(TimeRangeEntries(ix, call.start, call.end)))
      [] call.op = "query_by_site" ->
           ReadRecordsByOffsets(log, Offsets(SiteEntries(ix, call.key)))
      [] call.op = "query_by_region" ->
           ReadRecordsByOffsets(log, Offsets(RegionEntries(ix, call.key)))
      [] call.op = "get_sites" -> SiteSet(ix)
      [] call.op = "get_regions" -> RegionSet(ix)

\* C18: a new handle holds no Index until its first query or append loads
\* it; from then on no step but the handle's own append changes the
\* handle's Index, whatever other writers do to the Log, an append
\* extends it by the entries of its records, and every indexed query
\* answers from the Index the handle held before the call.
C18_CacheNotInvalidated ==
    [][\A h \in Handles :
          /\ (last'.op = "open" /\ last'.h = h) =>
                 ~loaded'[h] /\ index'[h] = << >>
          /\ (last'.op \in LoadingOps /\ last'.h = h) =>
                 loaded'[h] /\ (last'.path = "cached") = loaded[h]
          /\ (loaded[h] /\ ~(last'.op = "open" /\ last'.h = h)) =>
                 /\ loaded'[h]
                 /\ IF last'.op = "append" /\ last'.h = h
                    THEN index'[h] = index[h] \o NewEntries(FileSize(log),
                                                            last'.records)
                    ELSE index'[h] = index[h]
                 /\ (last'.op \in LoadingOps \ {"append"} /\ last'.h = h) =>
                        last'.res = AnswerFrom(index[h], last')]_vars

\* get_sites() has answered from the cached Index of a handle while the
\* Log holds a record line of another writer, of a site the Index lacks.
C18_Witness ==
    /\ last.op = "get_sites"
    /\ last.path = "cached"
    /\ last.res = {"site-1"}
    /\ \E i \in 1..Len(log) : WellFormedAt(log, i) /\ log[i].site_id = "site-2"

(* C19 *)
\* C19: when the calls of all threads on a Store object have returned,
\* every entry of its Index has the offset at which the Log line of its
\* record starts, and every line of the Log has an entry.
C19_MutationsExclusive ==
    \A h \in Handles :
        (AllIdle /\ loaded[h]) =>
            /\ \A i \in 1..Len(index[h]) : Describes(log, index[h][i])
            /\ \A j \in 1..Len(log) :
                  \E i \in 1..Len(index[h]) :
                      index[h][i].offset = Offset(log, j)

(* C20 *)
\* C20: the Index a tail call has read is the Index of a prefix of the
\* Log, one entry per line in Log order, and holds no fewer entries than
\* the Index held when the call began (than the Log had lines, for a
\* call that began on a handle not yet loaded).
C20_QuerySnapshot ==
    \A t \in Threads :
        (threads[t].pc = "done" /\ threads[t].op = "tail") =>
            LET used == Tuples(threads[t].used)
                lines == LogTuples(log, 1)
            IN  /\ Len(used) <= Len(lines)
                /\ used = SubSeq(lines, 1, Len(used))
                /\ Len(used) >= threads[t].base

(* C21 *)
\* The k entries that end the Index ix are the entries of the k lines
\* that end the Log lg, each with the offset at which its line starts.
EndsWithEntriesOf(ix, lg, recs) ==
    LET k == Len(recs)
    IN  /\ Len(ix) >= k
        /\ Len(lg) >= k
        /\ \A j \in 1..k :
              LET e == ix[Len(ix) - k + j]
                  i == Len(lg) - k + j
              IN  /\ lg[i] = JsonLine(recs[j])
                  /\ lg[i].nl
                  /\ e.offset = Offset(lg, i)
                  /\ e.timestamp = recs[j].timestamp
                  /\ e.site_id = recs[j].site_id
                  /\ e.region_id = recs[j].region_id

\* C21: the steps of a call append(recs) with k records that does not
\* overlap another call come in this order and do this: on a handle that
\* is loaded the load changes nothing and scans nothing; each of the k
\* writes puts the next record's newline-terminated line at the end of
\* the Log and leaves Index and sidecar alone; then one step extends the
\* Index by exactly k entries, those of the k lines now ending the Log
\* with their line starts as offsets, keeping the entries it had; then
\* the save makes the sidecar the pickle of the Index; and the call
\* returns k.
C21_AppendWritesExtendsSaves ==
    [][\A t \in Threads :
          (threads[t] # Idle /\ threads[t].op = "append"
             /\ threads'[t] # threads[t]) =>
            LET h == threads[t].h
                recs == threads[t].arg
                n == Len(threads[t].new_entries)
                pc == threads[t].pc
            IN  /\ pc = "load" /\ loaded[h] =>
                      /\ threads'[t].pc = "loaded"
                      /\ UNCHANGED << log, index, sidecar >>
                /\ pc = "loaded" =>
                      /\ threads'[t].pc = IF recs = << >> THEN "extend"
                                          ELSE "write"
                      /\ UNCHANGED << log, index, sidecar >>
                /\ pc = "write" =>
                      /\ log' = Append(log, JsonLine(recs[n + 1]))
                      /\ threads'[t].pc = IF n + 1 = Len(recs) THEN "extend"
                                          ELSE "write"
                      /\ UNCHANGED << index, sidecar >>
                /\ pc = "extend" =>
                      /\ threads'[t].pc = "save"
                      /\ Len(index'[h]) = Len(index[h]) + Len(recs)
                      /\ SubSeq(index'[h], 1, Len(index[h])) = index[h]
                      /\ EndsWithEntriesOf(index'[h], log, recs)
                      /\ UNCHANGED << log, sidecar >>
                /\ pc = "save" =>
                      /\ threads'[t].pc = "done"
                      /\ threads'[t].res = Len(recs)
                      /\ sidecar' = Pickled(index[h])
                      /\ UNCHANGED << log, index >>
                /\ pc = "done" =>
                      /\ threads'[t] = Idle
                      /\ sidecar = Pickled(index[h])
                      /\ UNCHANGED << log, index, sidecar >>]_vars

\* A call append of two records has written its two lines, extended an
\* Index and saved it, and is about to return 2.
C21_Witness ==
    \E t \in Threads :
        /\ threads[t].pc = "done"
        /\ threads[t].op = "append"
        /\ Len(threads[t].arg) = 2
        /\ threads[t].res = 2
        /\ Len(index[threads[t].h]) = 2
        /\ index[threads[t].h][2].offset = Offset(log, 2)
        /\ sidecar = Pickled(index[threads[t].h])

(* C22 *)
\* C22: every step leaves the sidecar as it was or leaves in it the
\* complete pickle of the Index some handle holds after the step; the
\* sidecar never holds bytes that are no complete pickle of an Index.
C22_SaveAtomic ==
    [][\/ sidecar' = sidecar
       \/ \E h \in Handles : sidecar' = Pickled(index'[h])]_vars

(* C23 *)
\* The offsets of ix are strictly increasing.
Ordered(ix) == \A i \in 1..(Len(ix) - 1) : ix[i].offset < ix[i + 1].offset

\* C23: the first call on a handle that loads the Index adopts the
\* sidecar exactly when the sidecar is there, unpickles and holds an
\* ordered sequence of entries; otherwise it rebuilds.
C23_AdoptOnlyConsistent ==
    [][\A h \in Handles :
          (last'.op \in LoadingOps /\ last'.h = h /\ ~loaded[h]) =>
             /\ last'.path \in {"adopted", "rebuilt-absent", "rebuilt-corrupt"}
             /\ (last'.path = "adopted") =
                    (sidecar.st = "list" /\ Ordered(sidecar.entries))]_vars

(* C24 *)
\* A call is scanning the Log to rebuild the Index.
Rebuilding == \E t \in Threads : threads[t].pc = "scan"

\* A call has ended its load with the handle loaded and an Index that
\* holds, in Log order, one entry for every well-formed line of the Log.
ReadyWithFullIndex ==
    \E t \in Threads :
        /\ threads[t].pc = "loaded"
        /\ loaded[threads[t].h]
        /\ Tuples(index[threads[t].h]) = LogTuples(log, 1)

\* C24: a rebuild that has begun leads to a loaded handle whose Index
\* holds one entry for every well-formed line of the Log, whatever the
\* sidecar and the Log hold; and a handle that is loaded stays loaded.
C24_RecoveryEndsReady ==
    /\ Rebuilding ~> ReadyWithFullIndex
    /\ [][\A h \in Handles :
             (loaded[h] /\ ~(last'.op = "open" /\ last'.h = h)) =>
                 loaded'[h]]_vars

(* C25 *)
\* C25: on a handle that is loaded _load_index is the identity: applied
\* to the handle's Index, the Log and the sidecar as they are it gives
\* back that Index and that sidecar and saves nothing; and every query
\* on a loaded handle, which begins with it, leaves the handle's Index,
\* the sidecar and the Log as they were, whatever the sidecar holds by
\* then.
C25_LoadIdempotent ==
    [][\A h \in Handles :
          loaded[h] =>
             /\ LoadIndex(index[h], loaded[h], log, sidecar)
                  = [index |-> index[h], sidecar |-> sidecar,
                     path |-> "cached", saved |-> FALSE]
             /\ (last'.op \in LoadingOps \ {"append"} /\ last'.h = h) =>
                    /\ last'.path = "cached"
                    /\ loaded'[h]
                    /\ index'[h] = index[h]
                    /\ sidecar' = sidecar
                    /\ log' = log]_vars

\* A query on a loaded handle has left a sidecar alone that holds a list
\* other than the handle's Index.
C25_Witness ==
    /\ last.op = "get_sites"
    /\ last.path = "cached"
    /\ loaded[last.h]
    /\ index[last.h] # << >>
    /\ sidecar.st = "list"
    /\ sidecar.entries # index[last.h]

(* C26 *)
\* C26: when the load of a call has rebuilt the Index, the sidecar holds
\* the pickle of the handle's Index after the call, whatever the sidecar
\* held before and whether the Log is missing, empty or not.
C26_RebuildEndsWithSave ==
    (last.op \in LoadingOps /\ last.path \in {"rebuilt-absent",
                                               "rebuilt-corrupt"}) =>
        sidecar = Pickled(index[last.h])

(* C27 *)
\* Thread t is in run_with_retries.
Retrying(t) == threads[t] # Idle /\ threads[t].op = "run_with_retries"

\* What holds of a run_with_retries under way or ended, outcomes being
\* the outcomes of its calls of run_once in order.
RetriesAsClaimed(t) ==
    LET c == threads[t]
        n == Len(c.outcomes)
    IN  /\ n <= c.max_retries + 1
        /\ \A i \in 1..(n - 1) : c.outcomes[i].out \in Retryable
        /\ c.pc \in {"try", "sleep"} =>
               /\ n <= c.max_retries
               /\ \A i \in 1..n : c.outcomes[i].out \in Retryable
        /\ c.pc = "done" =>
               /\ n >= 1
               /\ c.outcomes[n].out = "ok" =>
                      c.raised = "none" /\ c.res = c.outcomes[n].count
               /\ c.outcomes[n].out # "ok" => c.raised = c.outcomes[n].out
               /\ c.outcomes[n].out \in Retryable => n = c.max_retries + 1

\* C27: run_with_retries ends, after at most max_retries + 1 calls of
\* run_once; every call but the last raised ConnectionError or OSError;
\* it returns the result of the call that succeeds, raises the
\* ConnectionError or OSError of call max_retries + 1, and raises any
\* other exception of the call that raises it.
C27_RetriesBounded ==
    /\ [](\A t \in {1, 2} : Retrying(t) => RetriesAsClaimed(t))
    /\ \A t \in {1, 2} :
          (Retrying(t) /\ threads[t].pc # "done")
              ~> (Retrying(t) /\ threads[t].pc = "done")

\* run_with_retries with max_retries = 3 has raised the OSError of the
\* fourth call of run_once.
C27_Witness ==
    \E t \in Threads :
        /\ Retrying(t)
        /\ threads[t].pc = "done"
        /\ threads[t].max_retries = 3
        /\ Len(threads[t].outcomes) = 4
        /\ threads[t].raised = "OSError"
        /\ threads[t].delay = 8

(* C28 *)
\* C28: an append that raises leaves the Log as it was, and leaves the
\* handle's Index and the sidecar as its load left them.
C28_FailedAppendChangesNothing ==
    [][(last'.op = "append" /\ last'.raised) =>
          LET h == last'.h
              ld == LoadIndex(index[h], loaded[h], log, sidecar)
          IN  /\ log' = log
              /\ index'[h] = ld.index
              /\ sidecar' = ld.sidecar]_vars

(* C29 *)
\* C29: after every append through either of two handles on a path the
\* sidecar holds, in Log order, one entry for every record of the Log.
C29_TwoHandlesSidecarComplete ==
    (last.op = "append" /\ ~last.raised) =>
        /\ sidecar.st = "list"
        /\ Tuples(sidecar.entries) = LogTuples(log, 1)

(* C30 *)
\* The nine queries.
QueryOps ==
    {"all", "tail", "summary", "to_dicts", "query_time_range",
     "query_by_site", "query_by_region", "get_sites", "get_regions"}

\* The name, the handle and the arguments of a call.
CallOf(c) ==
    [x \in DOMAIN c \ {"res", "path", "sidecar_by", "raised"} |-> c[x]]

\* C30: a query on a loaded handle leaves the Log, the Index of every
\* handle and the sidecar as they were, and a query that repeats the call
\* before it returns what that call returned.
C30_QueriesReadOnly ==
    [][(last'.op \in QueryOps /\ loaded[last'.h]) =>
          /\ log' = log
          /\ index' = index
          /\ sidecar' = sidecar
          /\ loaded' = loaded
          /\ (last.op \in QueryOps /\ CallOf(last') = CallOf(last)) =>
                 last'.res = last.res]_vars

\* query_by_site has answered with a record from the cached Index of a
\* handle whose sidecar was deleted, and left the sidecar absent.
C30_Witness ==
    /\ last.op = "query_by_site"
    /\ last.path = "cached"
    /\ Len(last.res) = 1
    /\ Len(log) = 2
    /\ sidecar = Absent

====
